---- MODULE Spec2Model ----
(***************************************************************************)
(* Model of the JWT exercise src/3c/ej3c2.py: the Flask application with   *)
(* POST /api/auth/login, GET /api/secret (behind jwt_required) and         *)
(* GET /api/public, together with the PyJWT calls jwt.encode / jwt.decode  *)
(* the code makes (PyJWT 2.6 or later: claims are validated in the order   *)
(* iat, exp; a token expires at the second exp itself).                    *)
(*                                                                         *)
(* Time is counted in ticks of 1/TicksPerSecond second, so that the        *)
(* truncation of a datetime to whole seconds done by jwt.encode and by     *)
(* .replace(microsecond=0) is a real conversion.                           *)
(***************************************************************************)
EXTENDS Integers, Sequences, FiniteSets, TLC

VARIABLES
    clock,              \* the wall clock (datetime.utcnow()), in ticks
    USER_CREDENTIALS,   \* module global, ej3c2.py:25
    JWT_SECRET_KEY,     \* module global, ej3c2.py:21
    issued,             \* tokens returned by successful logins, held by the client
    req,                \* the request handled last
    resp,               \* its response
    trace,              \* what the handling did: jwt.decode called, handler run, flask context
    inflight,           \* the requests being handled at once, one per worker thread
    db,                 \* the library database of the 3a and 3b programs: authors and books
    call                \* the function call or request made last on the database, and its result

vars == <<clock, USER_CREDENTIALS, JWT_SECRET_KEY, issued, req, resp, trace, inflight, db, call>>

----------------------------------------------------------------------------
(* Bounds of the model *)

TicksPerSecond == 2
MaxJitter == 1
MaxEpochs == 1
MaxIssued == 1
MaxInflight == 2
MaxIds == 6
MaxRows == 2

(* Program constants *)

JWT_EXPIRATION_DELTA == 3600

SECRET == "clave_secreta_jwt_para_firmar_tokens"
OTHER_KEY == "otra_clave"

TTLTicks == JWT_EXPIRATION_DELTA * TicksPerSecond

\* The instants the clock visits: a window around each multiple of the TTL.
Instants ==
    { e * TTLTicks + j : e \in 0..MaxEpochs, j \in (0 - MaxJitter)..MaxJitter } \cap Nat

\* timegm(dt.utctimetuple()) / .replace(microsecond=0): whole seconds of an instant
Seconds(t) == t \div TicksPerSecond

----------------------------------------------------------------------------
(* Python / JSON values *)

PyNone == [t |-> "None", v |-> ""]
Str(s) == [t |-> "str", v |-> s]
PyList == [t |-> "list", v |-> "x"]      \* a non-empty JSON array: truthy, unhashable
EmptyList == [t |-> "list", v |-> ""]    \* the empty JSON array: falsy
PyInt(n) == [t |-> "int", v |-> n]
PyBool(b) == [t |-> "bool", v |-> b]
PyHuge == [t |-> "huge", v |-> ""]       \* an int above 2**63 - 1

\* Python truthiness of a value (`not x` is its negation)
Truthy(x) ==
    CASE x.t = "None" -> FALSE
      [] x.t = "str"  -> x.v # ""
      [] x.t = "list" -> x.v # ""
      [] x.t = "dict" -> DOMAIN x.v # {}

EmptyDict == [k \in {} |-> PyNone]
\* a JSON object with the given fields
JObject(f) == [t |-> "dict", v |-> f]

\* dict.get(key) on a dict of JSON values
DictGet(d, k) == IF k \in DOMAIN d THEN d[k] ELSE PyNone

----------------------------------------------------------------------------
(* Tokens: header . payload . signature, each segment base64url *)

\* The payload is a function from the claim names present to their values.
Claims(sub, iat, exp) == [sub |-> sub, iat |-> iat, exp |-> exp]
ClaimsNoExp(sub, iat) == [sub |-> sub, iat |-> iat]
ClaimsNoIat(sub, exp) == [sub |-> sub, exp |-> exp]
ClaimsSubOnly(sub)    == [sub |-> sub]

\* HMAC-SHA256 over the signing input (header and payload) under a key: an
\* ideal MAC, equal only for equal key, header and payload.
HMAC(key, alg, payload) == [key |-> key, alg |-> alg, payload |-> payload]
NoMAC == [key |-> "", alg |-> "", payload |-> ClaimsSubOnly("")]

\* base64url of the signature: the 32 bytes end in a character that carries
\* 4 bits of data and 2 unused bits (pad), which the encoder sets to 0.
B64Encode(mac) == [mac |-> mac, pad |-> 0]
\* base64.urlsafe_b64decode: the unused bits are dropped.
B64Decode(seg) == seg.mac

\* jwt.encode turns the datetime claims (instants, in ticks) of a payload into
\* whole seconds: timegm(value.utctimetuple())
MutToNumericDatesRound(payload) ==
    [k \in DOMAIN payload |->
        IF k \in {"iat", "exp"}
            THEN (payload[k] + TicksPerSecond \div 2) \div TicksPerSecond
            ELSE payload[k]]

ToNumericDates(payload) ==
    [k \in DOMAIN payload |->
        IF k \in {"iat", "exp"} THEN Seconds(payload[k]) ELSE payload[k]]

\* jwt.encode(payload, key, algorithm), the payload's time claims in seconds
jwt_encode(payload, key, alg) ==
    [shape |-> "jws", alg |-> alg, payload |-> payload,
     sig |-> B64Encode(HMAC(key, alg, payload))]

\* A string that is no three-segment token ("invalid_token")
GarbageToken ==
    [shape |-> "garbage", alg |-> "", payload |-> ClaimsSubOnly(""),
     sig |-> B64Encode(NoMAC)]

\* Alterations of a token's signature segment
FlipMAC(tok)  == [tok EXCEPT !.sig.mac.key = "flipped"]
FlipPad(tok)  == [tok EXCEPT !.sig.pad = 1]
Resign(tok, key) == jwt_encode(tok.payload, key, tok.alg)
\* An unsigned token: header alg "none", empty signature
Unsigned(payload) ==
    [shape |-> "jws", alg |-> "none", payload |-> payload, sig |-> B64Encode(NoMAC)]

----------------------------------------------------------------------------
(* jwt.decode(token, key, algorithms=[...]) at the instant now (PyJWT) *)

\* The claims checks of PyJWT, in its order: iat (not in the future), then
\* exp (expired at the second exp itself); no claim is required by default.
MutValidateClaimsLate(payload, now) ==
    IF "iat" \in DOMAIN payload /\ payload.iat * TicksPerSecond > now
        THEN "ImmatureSignatureError"
    ELSE IF "exp" \in DOMAIN payload /\ payload.exp * TicksPerSecond < now
        THEN "ExpiredSignatureError"
    ELSE "ok"

ValidateClaims(payload, now) ==
    IF "iat" \in DOMAIN payload /\ payload.iat * TicksPerSecond > now
        THEN "ImmatureSignatureError"
    ELSE IF "exp" \in DOMAIN payload /\ payload.exp * TicksPerSecond <= now
        THEN "ExpiredSignatureError"
    ELSE "ok"

\* jwt.InvalidTokenError and its subclasses
MutInvalidTokenError == {"ExpiredSignatureError", "InvalidSignatureError"}

InvalidTokenError ==
    {"DecodeError", "InvalidAlgorithmError", "InvalidSignatureError",
     "ImmatureSignatureError", "ExpiredSignatureError"}

\* The outcome of jwt.decode on a token: the structure, the declared
\* algorithm, the signature, then the claims.
MutDecodeNoSignature(tok, key, algorithms, now) ==
    IF tok.shape # "jws" THEN "DecodeError"
    ELSE IF tok.alg \notin algorithms THEN "InvalidAlgorithmError"
    ELSE ValidateClaims(tok.payload, now)

MutDecodeAnyAlgorithm(tok, key, algorithms, now) ==
    IF tok.shape # "jws" THEN "DecodeError"
    ELSE IF tok.alg # "none" /\ B64Decode(tok.sig) # HMAC(key, tok.alg, tok.payload)
        THEN "InvalidSignatureError"
    ELSE ValidateClaims(tok.payload, now)

MutDecodeExpiryFirst(tok, key, algorithms, now) ==
    IF tok.shape # "jws" THEN "DecodeError"
    ELSE IF tok.alg \notin algorithms THEN "InvalidAlgorithmError"
    ELSE IF ValidateClaims(tok.payload, now) # "ok" THEN ValidateClaims(tok.payload, now)
    ELSE IF B64Decode(tok.sig) # HMAC(key, tok.alg, tok.payload)
        THEN "InvalidSignatureError"
    ELSE "ok"

jwt_decode(tok, key, algorithms, now) ==
    IF tok.shape # "jws" THEN "DecodeError"
    ELSE IF tok.alg \notin algorithms THEN "InvalidAlgorithmError"
    ELSE IF B64Decode(tok.sig) # HMAC(key, tok.alg, tok.payload)
        THEN "InvalidSignatureError"
    ELSE ValidateClaims(tok.payload, now)

\* What jwt.decode returns when it raises nothing: the payload of the token
jwt_decode_payload(tok, key, algorithms, now) ==
    IF jwt_decode(tok, key, algorithms, now) = "ok" THEN tok.payload ELSE EmptyDict

----------------------------------------------------------------------------
(* The Authorization header: a string, modelled as a sequence of characters *)
(* in which a whole token is one element.                                   *)

Ch(c) == [k |-> "ch", c |-> c, t |-> <<>>]
Tk(t) == [k |-> "tok", c |-> "", t |-> t]

BearerPrefix == <<Ch("B"), Ch("e"), Ch("a"), Ch("r"), Ch("e"), Ch("r"), Ch(" ")>>
LowerPrefix  == <<Ch("b"), Ch("e"), Ch("a"), Ch("r"), Ch("e"), Ch("r"), Ch(" ")>>

\* str.startswith
StartsWith(s, p) == Len(s) >= Len(p) /\ SubSeq(s, 1, Len(p)) = p

\* s.split(" ", 1)[1]: what follows the first space of s (s has one)
RECURSIVE AfterFirstSpace(_)
AfterFirstSpace(s) ==
    IF Head(s) = Ch(" ") THEN Tail(s) ELSE AfterFirstSpace(Tail(s))

\* str.strip(): leading and trailing whitespace removed
RECURSIVE LStrip(_)
LStrip(s) == IF s # <<>> /\ Head(s) = Ch(" ") THEN LStrip(Tail(s)) ELSE s
RECURSIVE RStrip(_)
RStrip(s) ==
    IF s # <<>> /\ s[Len(s)] = Ch(" ") THEN RStrip(SubSeq(s, 1, Len(s) - 1)) ELSE s
Strip(s) == RStrip(LStrip(s))

\* The token a string denotes for jwt.decode: a string made of exactly one
\* token is that token, any other string has not the three-segment shape.
AsToken(s) == IF Len(s) = 1 /\ s[1].k = "tok" THEN s[1].t ELSE GarbageToken

----------------------------------------------------------------------------
(* Responses: (jsonify(body), status); an unhandled exception is Flask's   *)
(* 500 page, which is not JSON.                                            *)

MSG_INVALID == "Token invalido o ausente"
MSG_EXPIRED == "Token expirado"
MSG_CREDENTIALS == "Credenciales invalidas"
SECRET_TEXT == "La respuesta a la vida, el universo y todo lo demas es 42"

JsonResponse(status, body) == [status |-> status, json |-> TRUE, body |-> body]
ErrorResponse(msg) == JsonResponse(401, [error |-> msg])
InternalServerError == [status |-> 500, json |-> FALSE, body |-> EmptyDict]
NoResponse == [status |-> 0, json |-> FALSE, body |-> EmptyDict]

\* What handling a request did besides answering
Trace(decoded, handler, g, token) ==
    [decoded |-> decoded, handler |-> handler, g |-> g, token |-> token]
NoTrace == Trace(FALSE, FALSE, EmptyDict, GarbageToken)

----------------------------------------------------------------------------
(* ej3c2.py *)

MutGenerateNoExp(username, key, now) ==
    jwt_encode(ClaimsNoExp(username, Seconds(now)), key, "HS256")

MutGenerateHS512(username, key, now) ==
    jwt_encode(Claims(username, Seconds(now), Seconds(now + TTLTicks)), key, "HS512")

\* generate_jwt_token(username) with utcnow() = now
generate_jwt_token(username, key, now) ==
    LET payload == Claims(username, now, now + TTLTicks)
    IN  jwt_encode(ToNumericDates(payload), key, "HS256")

\* protected_secret(): the wrapped handler
protected_secret ==
    JsonResponse(200, [message |-> "Has accedido al secreto con JWT!",
                       secret |-> SECRET_TEXT])

\* public_endpoint()
public_endpoint ==
    JsonResponse(200, [message |-> "Este es un endpoint publico, cualquiera puede acceder"])

\* request.headers.get(name, default)
HeadersGet(headers, name, default) ==
    IF name \in DOMAIN headers THEN headers[name] ELSE default

\* auth_header.startswith("Bearer ")
MutHasBearerScheme(auth_header) ==
    StartsWith(auth_header, BearerPrefix) \/ StartsWith(auth_header, LowerPrefix)

HasBearerScheme(auth_header) == StartsWith(auth_header, BearerPrefix)

\* return func(*args, **kwargs): the wrapped handler is run and its response
\* returned; the decoded payload is dropped, nothing is put in the context.
MutForward(func, tok) ==
    [resp |-> JsonResponse(200, [sub |-> tok.payload.sub]),
     trace |-> Trace(TRUE, FALSE, EmptyDict, tok)]

MutForwardKnownUser(func, tok) ==
    IF tok.payload.sub = "usuario_demo"
        THEN [resp |-> func, trace |-> Trace(TRUE, TRUE, EmptyDict, tok)]
        ELSE [resp |-> ErrorResponse(MSG_INVALID),
              trace |-> Trace(TRUE, FALSE, EmptyDict, tok)]

Forward(func, tok) ==
    [resp |-> func, trace |-> Trace(TRUE, TRUE, EmptyDict, tok)]

\* jwt_required(func): decorated_function, for a request with the given
\* headers handled at the instant now; the response and the trace.
MutGuardRunsFirst(func, headers, key, now) ==
    LET auth_header == HeadersGet(headers, "Authorization", <<>>)
        rejected == [resp |-> ErrorResponse(MSG_INVALID), trace |-> NoTrace]
    IN  IF ~HasBearerScheme(auth_header) THEN rejected
        ELSE LET token == Strip(AfterFirstSpace(auth_header))
             IN  IF token = <<>> THEN rejected
                 ELSE LET tok == AsToken(token)
                          outcome == jwt_decode(tok, key, {"HS256"}, now)
                      IN  IF outcome = "ok" THEN Forward(func, tok)
                          ELSE [resp |-> ErrorResponse(
                                    IF outcome = "ExpiredSignatureError"
                                        THEN MSG_EXPIRED ELSE MSG_INVALID),
                                trace |-> Trace(TRUE, TRUE, EmptyDict, tok)]

decorated_function(func, headers, key, now) ==
    LET auth_header == HeadersGet(headers, "Authorization", <<>>)
        rejected == [resp |-> ErrorResponse(MSG_INVALID), trace |-> NoTrace]
    IN  IF ~HasBearerScheme(auth_header) THEN rejected
        ELSE LET token == Strip(AfterFirstSpace(auth_header))
             IN  IF token = <<>> THEN rejected
                 ELSE LET tok == AsToken(token)
                          outcome == jwt_decode(tok, key, {"HS256"}, now)
                      IN  IF outcome = "ExpiredSignatureError"
                              THEN [resp |-> ErrorResponse(MSG_EXPIRED),
                                    trace |-> Trace(TRUE, FALSE, EmptyDict, tok)]
                          ELSE IF outcome \in InvalidTokenError
                              THEN [resp |-> ErrorResponse(MSG_INVALID),
                                    trace |-> Trace(TRUE, FALSE, EmptyDict, tok)]
                          ELSE IF outcome = "ok" THEN Forward(func, tok)
                          ELSE [resp |-> InternalServerError,      \* uncaught
                                trace |-> Trace(TRUE, FALSE, EmptyDict, tok)]

\* USER_CREDENTIALS.get(username): a list is unhashable (TypeError)
CredentialsGet(creds, username) ==
    IF username.t = "str" /\ username.v \in DOMAIN creds
        THEN Str(creds[username.v]) ELSE PyNone
Unhashable(x) == x.t \in {"list", "dict"}

MutLoginDistinguish(body, creds, key, now1, now2) ==
    LET data == IF Truthy(body) THEN body ELSE JObject(EmptyDict)
    IN  IF data.t # "dict" THEN InternalServerError
        ELSE LET username == DictGet(data.v, "username")
                 password == DictGet(data.v, "password")
             IN  IF ~Truthy(username) \/ ~Truthy(password)
                     THEN ErrorResponse(MSG_CREDENTIALS)
                 ELSE IF Unhashable(username) THEN InternalServerError
                 ELSE IF CredentialsGet(creds, username) = PyNone
                     THEN ErrorResponse("Usuario desconocido")
                 ELSE IF CredentialsGet(creds, username) # password
                     THEN ErrorResponse(MSG_CREDENTIALS)
                 ELSE JsonResponse(200,
                        [token |-> generate_jwt_token(username.v, key, now1),
                         expires_at |-> Seconds(now2 + TTLTicks)])

\* login(): body is request.get_json(silent=True); now1 and now2 are the two
\* readings of utcnow() (in generate_jwt_token, then for expires_at).
login(body, creds, key, now1, now2) ==
    LET data == IF Truthy(body) THEN body ELSE JObject(EmptyDict)
    IN  IF data.t # "dict" THEN InternalServerError      \* data.get: AttributeError
        ELSE LET username == DictGet(data.v, "username")
                 password == DictGet(data.v, "password")
             IN  IF ~Truthy(username) \/ ~Truthy(password)
                     THEN ErrorResponse(MSG_CREDENTIALS)
                 ELSE IF Unhashable(username) THEN InternalServerError
                 ELSE IF CredentialsGet(creds, username) # password
                     THEN ErrorResponse(MSG_CREDENTIALS)
                 ELSE JsonResponse(200,
                        [token |-> generate_jwt_token(username.v, key, now1),
                         expires_at |-> Seconds(now2 + TTLTicks)])

----------------------------------------------------------------------------
(* The requests the clients send *)

Usernames == {"usuario_demo", "usuario_falso"}
Passwords == {"password123", "wrong"}
FieldValues(strings) == {Str(x) : x \in strings} \cup {Str(""), PyList}

\* JSON objects with any of the two fields present or absent
LoginObjects ==
    { JObject([username |-> u, password |-> p]) :
        u \in FieldValues(Usernames), p \in FieldValues(Passwords) }
    \cup { JObject([username |-> Str("usuario_demo")]),
           JObject([password |-> Str("password123")]) }
    \cup { JObject(EmptyDict) }

\* no body or not JSON (get_json gives None), a JSON array, a JSON string, an object
LoginBodies == {PyNone, EmptyList, PyList, Str("abc")} \cup LoginObjects

\* Claim sets a client can put in a token of its own making
ForgedSeconds == { e * JWT_EXPIRATION_DELTA : e \in 0..MaxEpochs }
ForgedSubjects == {"usuario_demo", "intruso"}
ForgedPayloads ==
    { Claims(s, i, e) : s \in ForgedSubjects, i \in ForgedSeconds, e \in ForgedSeconds }
    \cup { ClaimsNoExp(s, i) : s \in ForgedSubjects, i \in ForgedSeconds }
    \cup { ClaimsNoIat(s, e) : s \in ForgedSubjects, e \in ForgedSeconds }
    \cup { ClaimsSubOnly(s) : s \in ForgedSubjects }

\* Tokens not obtained from the login endpoint: signed with the server's key
\* (whoever holds it), with another key, under another algorithm, unsigned,
\* or no token at all.
ForgedTokens ==
    { jwt_encode(c, SECRET, "HS256") : c \in ForgedPayloads }
    \cup { jwt_encode(ClaimsNoIat(s, e), OTHER_KEY, "HS256") :
             s \in ForgedSubjects, e \in ForgedSeconds }
    \cup { jwt_encode(ClaimsNoIat("intruso", e), SECRET, "HS512") : e \in ForgedSeconds }
    \cup { Unsigned(ClaimsNoIat("intruso", e)) : e \in ForgedSeconds }
    \cup { GarbageToken }

\* The tokens a client can present: forged ones, the issued ones, and the
\* issued ones with the signature segment altered.
PresentableTokens ==
    ForgedTokens \cup issued
    \cup { FlipMAC(t) : t \in issued } \cup { FlipPad(t) : t \in issued }
    \cup { Resign(t, OTHER_KEY) : t \in issued }

Bearer(t) == BearerPrefix \o <<Tk(t)>>

\* Header values that are not "Bearer <token>", around a token t
OddHeaderValues(t) ==
    { <<>>,                                   \* Authorization: (empty)
      <<Tk(t)>>,                              \* the bare token
      LowerPrefix \o <<Tk(t)>>,               \* bearer <token>
      SubSeq(BearerPrefix, 1, 6),             \* Bearer
      BearerPrefix,                           \* "Bearer "
      BearerPrefix \o <<Ch(" "), Ch(" ")>>,   \* "Bearer   "
      BearerPrefix \o <<Ch(" "), Tk(t)>>,     \* "Bearer  <token>"
      BearerPrefix \o <<Tk(t), Ch(" ")>>,     \* "Bearer <token> "
      BearerPrefix \o <<Tk(t), Ch(" "), Ch("x")>>,  \* "Bearer <token> x"
      SubSeq(BearerPrefix, 1, 6) \o <<Tk(t)>> }     \* "Bearer<token>"

WithAuthorization(value) == [Authorization |-> value]
NoHeaders == [k \in {} |-> <<>>]

RequestHeaders ==
    { NoHeaders }
    \cup { WithAuthorization(Bearer(t)) : t \in PresentableTokens }
    \cup { WithAuthorization(v) :
             v \in UNION { OddHeaderValues(t) :
                             t \in issued \cup {jwt_encode(ClaimsSubOnly("intruso"), SECRET, "HS256")} } }

\* A request, with the instants at which its handling began and ended
Request(route, at, done, headers, body) ==
    [route |-> route, at |-> at, done |-> done, headers |-> headers, body |-> body]

----------------------------------------------------------------------------
(* The state machine *)

\* The library database before anything is stored: authors, books, the
\* number of ids handed out, whether the unique index on the author name exists
EmptyDB == [autores |-> {}, libros |-> {}, ids |-> 0, unique |-> FALSE]

\* No call made yet
NoCall == [name |-> "none"]

\* The credentials the module is loaded with
StartupCredentials == [usuario_demo |-> "password123"]

\* The worker threads of the server, and a worker with no request
Workers == 1..MaxInflight
Idle ==
    [pc |-> "idle", route |-> "none", headers |-> NoHeaders, body |-> PyNone,
     data |-> PyNone, now1 |-> 0]

InitWith(database) ==
    /\ clock = 0
    /\ USER_CREDENTIALS = StartupCredentials
    /\ JWT_SECRET_KEY = SECRET
    /\ issued = {}
    /\ req = Request("none", 0, 0, NoHeaders, PyNone)
    /\ resp = NoResponse
    /\ trace = NoTrace
    /\ inflight = [w \in Workers |-> Idle]
    /\ db = database
    /\ call = NoCall

Init == InitWith(EmptyDB)

\* The wall clock advances to a later instant of the given ones
AdvanceWithin(instants) ==
    /\ \E t \in instants : t > clock /\ clock' = t
    /\ UNCHANGED <<db, call, inflight, USER_CREDENTIALS, JWT_SECRET_KEY, issued, req, resp, trace>>

\* The wall clock advances
Advance == AdvanceWithin(Instants)

\* The module globals after a request: login() and decorated_function only
\* read USER_CREDENTIALS and JWT_SECRET_KEY, whatever the response
MutLockout(creds, response) ==
    IF response.status = 401 THEN [u \in {} |-> ""] ELSE creds

CredentialsAfter(creds, response) == creds

MutRotateKey(key, response) ==
    IF response.status = 401 THEN OTHER_KEY ELSE key

KeyAfter(key, response) == key

\* What the client keeps of the tokens it was given
Keep(tokens, tok) ==
    IF Cardinality(tokens \cup {tok}) <= MaxIssued THEN tokens \cup {tok} ELSE {tok}

\* POST /api/auth/login; the clock may tick between the two readings of
\* utcnow() (d = 1), which only a successful login makes.
Login ==
    \E body \in LoginBodies, d \in {0, 1} :
        /\ clock + d \in Instants
        /\ resp' = login(body, USER_CREDENTIALS, JWT_SECRET_KEY, clock, clock + d)
        /\ d = 1 => resp'.status = 200
        /\ clock' = clock + d
        /\ req' = Request("login", clock, clock + d, NoHeaders, body)
        /\ trace' = NoTrace
        /\ issued' = IF resp'.status = 200 THEN Keep(issued, resp'.body.token) ELSE issued
        /\ USER_CREDENTIALS' = CredentialsAfter(USER_CREDENTIALS, resp')
        /\ JWT_SECRET_KEY' = KeyAfter(JWT_SECRET_KEY, resp')
        /\ UNCHANGED <<db, call, inflight>>

\* GET /api/secret with the given headers
GetSecret(headers) ==
    LET r == decorated_function(protected_secret, headers, JWT_SECRET_KEY, clock)
    IN  /\ req' = Request("secret", clock, clock, headers, PyNone)
        /\ resp' = r.resp
        /\ trace' = r.trace
        /\ USER_CREDENTIALS' = CredentialsAfter(USER_CREDENTIALS, r.resp)
        /\ JWT_SECRET_KEY' = KeyAfter(JWT_SECRET_KEY, r.resp)
        /\ UNCHANGED <<db, call, inflight, clock, issued>>

\* GET /api/secret
Secret == \E headers \in RequestHeaders : GetSecret(headers)

\* Headers of a request to a public endpoint: none, an issued token (valid
\* or expired by now), a garbage token, a value that is no "Bearer <token>"
PublicHeaders ==
    { NoHeaders, WithAuthorization(<<Ch("x")>>) }
    \cup { WithAuthorization(Bearer(t)) : t \in issued \cup {GarbageToken} }

\* @app.route('/api/public'): the view is registered as it is, undecorated
MutPublicRoute(view, headers, key, now) ==
    decorated_function(view, headers, key, now).resp

PublicRoute(view, headers, key, now) == view

\* GET /api/public
Public ==
    \E headers \in PublicHeaders :
        /\ req' = Request("public", clock, clock, headers, PyNone)
        /\ resp' = PublicRoute(public_endpoint, headers, JWT_SECRET_KEY, clock)
        /\ trace' = NoTrace
        /\ UNCHANGED <<db, call, inflight, clock, USER_CREDENTIALS, JWT_SECRET_KEY, issued>>

Next == Advance \/ Login \/ Secret \/ Public

Spec == Init /\ [][Next]_vars

----------------------------------------------------------------------------
(* The token codec alone: a claim set is encoded with the server's key as   *)
(* generate_jwt_token does and the token decoded as jwt_required does.      *)

\* Claim sets with datetime claims: those of generate_jwt_token at any
\* instant, and others with any issue and expiry instants
CodecInstants == Instants \cup { t + TTLTicks : t \in Instants }
CodecClaims ==
    { Claims(s, i, e) : s \in ForgedSubjects, i \in Instants, e \in CodecInstants }

\* the outcome of the decoding and the claims it returned
CodecResult(outcome, claims) ==
    [status |-> 0, json |-> FALSE, body |-> [outcome |-> outcome, claims |-> claims]]

RoundTrip ==
    \E c \in CodecClaims :
        LET tok == jwt_encode(ToNumericDates(c), JWT_SECRET_KEY, "HS256")
        IN  /\ req' = Request("codec", clock, clock, NoHeaders, JObject(c))
            /\ resp' = CodecResult(jwt_decode(tok, JWT_SECRET_KEY, {"HS256"}, clock),
                                   jwt_decode_payload(tok, JWT_SECRET_KEY, {"HS256"}, clock))
            /\ trace' = Trace(TRUE, FALSE, EmptyDict, tok)
            /\ UNCHANGED <<db, call, inflight, clock, USER_CREDENTIALS, JWT_SECRET_KEY, issued>>

NextCodec == Advance \/ RoundTrip

SpecCodec == Init /\ [][NextCodec]_vars

----------------------------------------------------------------------------
(* The server with several requests in flight: each worker thread handles   *)
(* one request; the steps of the handlers of different workers interleave   *)
(* at the points where a handler reads the request, the module globals or   *)
(* the clock.                                                               *)

\* flask.request: the request of the worker's own context
MutCurrentRequest(slots, w) == slots[1]

CurrentRequest(slots, w) == slots[w]

\* The instants the clock visits while the requests are in flight: the start
\* and the window around the expiry of a token issued at the start
ConcurrentInstants == { t \in Instants : t = 0 \/ t \in (TTLTicks - MaxJitter)..(TTLTicks + MaxJitter) }

Tick == AdvanceWithin(ConcurrentInstants)

ConcurrentBodies ==
    { PyNone, Str("abc"),
      JObject([username |-> Str("usuario_demo"), password |-> Str("password123")]),
      JObject([username |-> Str("usuario_demo"), password |-> Str("wrong")]) }

ConcurrentHeaders ==
    { NoHeaders }
    \cup { WithAuthorization(Bearer(t)) :
              t \in {generate_jwt_token("usuario_demo", SECRET, 0), GarbageToken} }

\* A request arrives and is given to an idle worker
Receive(w) ==
    /\ inflight[w].pc = "idle"
    /\ \/ \E body \in ConcurrentBodies :
            inflight' = [inflight EXCEPT ![w] =
                            [Idle EXCEPT !.pc = "received", !.route = "login", !.body = body]]
       \/ \E headers \in ConcurrentHeaders :
            inflight' = [inflight EXCEPT ![w] =
                            [Idle EXCEPT !.pc = "received", !.route = "secret", !.headers = headers]]
    /\ UNCHANGED <<db, call, clock, USER_CREDENTIALS, JWT_SECRET_KEY, issued, req, resp, trace>>

\* The worker sends its response and is idle again
Respond(w, at, response, tr) ==
    /\ req' = Request(inflight[w].route, at, clock, inflight[w].headers, inflight[w].body)
    /\ resp' = response
    /\ trace' = tr
    /\ inflight' = [inflight EXCEPT ![w] = Idle]

\* decorated_function of GET /api/secret on the worker's request
GuardStep(w) ==
    /\ inflight[w].pc = "received"
    /\ inflight[w].route = "secret"
    /\ LET r == decorated_function(protected_secret, CurrentRequest(inflight, w).headers,
                                   JWT_SECRET_KEY, clock)
       IN  Respond(w, clock, r.resp, r.trace)
    /\ UNCHANGED <<db, call, clock, USER_CREDENTIALS, JWT_SECRET_KEY, issued>>

\* login() up to the return of generate_jwt_token: the body is read, the
\* credentials compared and the token made at the first reading of the clock
LoginStep(w) ==
    /\ inflight[w].pc = "received"
    /\ inflight[w].route = "login"
    /\ LET data == CurrentRequest(inflight, w).body
           out == login(data, USER_CREDENTIALS, JWT_SECRET_KEY, clock, clock)
       IN  IF out.status = 200
               THEN /\ inflight' = [inflight EXCEPT ![w] =
                                      [@ EXCEPT !.pc = "issuing", !.data = data, !.now1 = clock]]
                    /\ UNCHANGED <<req, resp, trace>>
               ELSE Respond(w, clock, out, NoTrace)
    /\ UNCHANGED <<db, call, clock, USER_CREDENTIALS, JWT_SECRET_KEY, issued>>

\* login(): the second reading of the clock and the response
RespondStep(w) ==
    /\ inflight[w].pc = "issuing"
    /\ Respond(w, inflight[w].now1,
               login(inflight[w].data, USER_CREDENTIALS, JWT_SECRET_KEY, inflight[w].now1, clock),
               NoTrace)
    /\ UNCHANGED <<db, call, clock, USER_CREDENTIALS, JWT_SECRET_KEY, issued>>

Handle == \E w \in Workers : GuardStep(w) \/ LoginStep(w) \/ RespondStep(w)

NextConcurrent ==
    \/ Tick
    \/ \E w \in Workers : Receive(w)
    \/ Handle

SpecConcurrent == Init /\ [][NextConcurrent]_vars

----------------------------------------------------------------------------
(* ej3c1.py: the application with one static token, and the two             *)
(* applications served side by side.                                        *)

API_TOKEN == "mi_token_secreto_1234"

\* A token that is a plain string
PlainToken(text) == [shape |-> "plain", text |-> text]

\* ej3c1 public_endpoint()
ej3c1_public_endpoint ==
    JsonResponse(200, [message |-> "Este es un endpoint publico, cualquiera puede acceder"])

\* ej3c1 protected_secret(): the body is "pass", the view returns None
ej3c1_protected_secret == PyNone

\* ej3c1 auth_required(func): decorated_function, whose body is "pass": it
\* reads no header, does not call func and returns None
ej3c1_decorated_function(func, headers) ==
    [rv |-> PyNone, trace |-> NoTrace]

\* Flask's handling of what a view returns: None is a TypeError ("The view
\* function did not return a valid response"), answered with the 500 page
make_response(rv) ==
    IF "t" \in DOMAIN rv /\ rv = PyNone THEN InternalServerError ELSE rv

\* Headers of the requests to ej3c1: none, the bare API_TOKEN, a wrong token,
\* the API_TOKEN, a token issued by the other application
StaticHeaders ==
    { NoHeaders,
      WithAuthorization(<<Tk(PlainToken(API_TOKEN))>>),
      WithAuthorization(Bearer(PlainToken("token_incorrecto"))),
      WithAuthorization(Bearer(PlainToken(API_TOKEN))) }
    \cup { WithAuthorization(Bearer(t)) : t \in issued }

\* ej3c1 GET /api/public
StaticPublic ==
    \E headers \in StaticHeaders :
        /\ req' = Request("ej3c1_public", clock, clock, headers, PyNone)
        /\ resp' = make_response(ej3c1_public_endpoint)
        /\ trace' = NoTrace
        /\ UNCHANGED <<db, call, inflight, clock, USER_CREDENTIALS, JWT_SECRET_KEY, issued>>

\* ej3c1 GET /api/secret
StaticSecret ==
    \E headers \in StaticHeaders :
        LET r == ej3c1_decorated_function(ej3c1_protected_secret, headers)
        IN  /\ req' = Request("ej3c1_secret", clock, clock, headers, PyNone)
            /\ resp' = make_response(r.rv)
            /\ trace' = r.trace
            /\ UNCHANGED <<db, call, inflight, clock, USER_CREDENTIALS, JWT_SECRET_KEY, issued>>

NextBoth == Advance \/ Login \/ Secret \/ Public \/ StaticPublic \/ StaticSecret

SpecBoth == Init /\ [][NextBoth]_vars

----------------------------------------------------------------------------
(* The state of the JWT applications, which the library programs leave alone *)
webvars == <<clock, USER_CREDENTIALS, JWT_SECRET_KEY, issued, req, resp, trace, inflight>>

----------------------------------------------------------------------------
(* The life of the issued tokens: logins, the passing of time, and guard   *)
(* checks of the tokens the client was given.                              *)

\* GET /api/secret with "Authorization: Bearer <token>", the token an issued one
CheckIssued == \E t \in issued : GetSecret(WithAuthorization(Bearer(t)))

NextLifecycle == Advance \/ Login \/ CheckIssued

SpecLifecycle == Init /\ [][NextLifecycle]_vars

----------------------------------------------------------------------------
(* Properties *)

\* The last request was GET /api/secret and jwt.decode was called on its token
GuardDecoded == req.route = "secret" /\ trace.decoded
\* The last request was let through to the protected handler
LetThrough == req.route = "secret" /\ trace.handler
\* The token of the last guarded request and its claims
Presented == trace.token
HasClaim(tok, name) == name \in DOMAIN tok.payload

\* The signature of a token verifies against JWT_SECRET_KEY with HS256
SignatureVerifies(tok) ==
    /\ tok.shape = "jws"
    /\ tok.alg = "HS256"
    /\ B64Decode(tok.sig) = HMAC(JWT_SECRET_KEY, "HS256", tok.payload)

\* The instant of the request is before the token's expires_at
BeforeExpiry(tok, now) == HasClaim(tok, "exp") /\ now < tok.payload.exp * TicksPerSecond
AtOrAfterExpiry(tok, now) == HasClaim(tok, "exp") /\ now >= tok.payload.exp * TicksPerSecond

\* C1: the guard lets a request through if and only if the token's signature
\* verifies against JWT_SECRET_KEY with HS256 and the request's instant is
\* before the token's expires_at; nothing else decides acceptance.
C1_ValidIffSignedAndUnexpired ==
    GuardDecoded =>
        (LetThrough <=> SignatureVerifies(Presented) /\ BeforeExpiry(Presented, req.at))

\* The body of the last login request carries a username/password pair of
\* the Credential Store
MatchingPair(body) ==
    /\ body.t = "dict"
    /\ {"username", "password"} \subseteq DOMAIN body.v
    /\ body.v.username.t = "str"
    /\ body.v.username.v \in DOMAIN USER_CREDENTIALS
    /\ body.v.password = Str(USER_CREDENTIALS[body.v.username.v])

\* C2: a login with a (username, password) pair of USER_CREDENTIALS answers
\* 200 with a token that decodes under JWT_SECRET_KEY/HS256 at issuance time,
\* whose sub is the username and which has an exp claim.
C2_LoginIssuesDecodableToken ==
    req.route = "login" /\ MatchingPair(req.body) =>
        /\ resp.status = 200
        /\ "token" \in DOMAIN resp.body
        /\ jwt_decode(resp.body.token, JWT_SECRET_KEY, {"HS256"}, req.at) = "ok"
        /\ jwt_decode(resp.body.token, JWT_SECRET_KEY, {"HS256"}, req.done) = "ok"
        /\ resp.body.token.payload.sub = req.body.v.username.v
        /\ HasClaim(resp.body.token, "exp")

C2_Witness ==
    /\ req.route = "login" /\ MatchingPair(req.body)
    /\ resp.status = 200
    /\ req.done > req.at

\* A login body naming a user (a non-empty string) with a non-empty password
NamesUser(body) ==
    /\ body.t = "dict"
    /\ {"username", "password"} \subseteq DOMAIN body.v
    /\ body.v.username.t = "str" /\ body.v.username.v # ""
    /\ Truthy(body.v.password)
UnknownUser(body) == NamesUser(body) /\ body.v.username.v \notin DOMAIN USER_CREDENTIALS
WrongPassword(body) ==
    /\ NamesUser(body)
    /\ body.v.username.v \in DOMAIN USER_CREDENTIALS
    /\ body.v.password # Str(USER_CREDENTIALS[body.v.username.v])

\* C3: the response to a login that names an unknown user equals the response
\* to every login that names an existing user with a wrong password, and the
\* other way round (401, same error body); a token is issued only when the
\* password supplied equals the stored password of the username supplied.
C3_LoginFailuresIndistinguishable ==
    req.route = "login" =>
        /\ UnknownUser(req.body) =>
             /\ resp.status = 401
             /\ \A b \in LoginBodies : WrongPassword(b) =>
                    resp = login(b, USER_CREDENTIALS, JWT_SECRET_KEY, req.at, req.at)
        /\ WrongPassword(req.body) =>
             /\ resp.status = 401
             /\ \A b \in LoginBodies : UnknownUser(b) =>
                    resp = login(b, USER_CREDENTIALS, JWT_SECRET_KEY, req.at, req.at)
        /\ "token" \in DOMAIN resp.body => MatchingPair(req.body)

C3_Witness ==
    /\ req.route = "login"
    /\ UnknownUser(req.body)
    /\ resp = ErrorResponse(MSG_CREDENTIALS)
    /\ \E b \in LoginBodies : WrongPassword(b)

IssuedByNow(tok, now) == HasClaim(tok, "iat") => tok.payload.iat * TicksPerSecond <= now

SignatureAltered(tok, t) ==
    /\ tok.shape = t.shape /\ tok.alg = t.alg /\ tok.payload = t.payload
    /\ tok.sig # t.sig

\* C5 as stated: a token obtained from an issued one by altering its
\* signature segment is rejected with 401 and the handler is not run.
C5_AlteredSignatureRejected ==
    GuardDecoded /\ (\E t \in issued : SignatureAltered(Presented, t)) =>
        resp.status = 401 /\ ~trace.handler

\* C5 amended: a token obtained from an issued one by altering its signature
\* segment so that the signature it decodes to differs (another key included)
\* is rejected with 401 and the handler is not run; an alteration of the
\* unused bits of the segment's last character alone leaves the signature
\* unchanged, and the token is treated as the issued one.
C5_AlteredSignatureBytesRejected ==
    GuardDecoded =>
        \A t \in issued : SignatureAltered(Presented, t) =>
            IF B64Decode(Presented.sig) # B64Decode(t.sig)
                THEN resp.status = 401 /\ ~trace.handler
                ELSE resp = decorated_function(protected_secret, WithAuthorization(Bearer(t)),
                                               JWT_SECRET_KEY, req.at).resp

C5_Witness ==
    /\ GuardDecoded
    /\ \E t \in issued : /\ SignatureAltered(Presented, t)
                         /\ B64Decode(Presented.sig) # B64Decode(t.sig)
                         /\ BeforeExpiry(t, req.at)
    /\ resp = ErrorResponse(MSG_INVALID)

\* The last request was GET /api/secret and the guard did not run the handler
GuardRejected == req.route = "secret" /\ ~trace.handler

\* C6: every rejection by the guard, whatever its cause, is a 401 with a JSON
\* body that has an 'error' field.
C6_RejectionsAre401 ==
    GuardRejected =>
        /\ resp.status = 401
        /\ resp.json
        /\ "error" \in DOMAIN resp.body
        /\ "secret" \notin DOMAIN resp.body

\* a rejection whose message differs from the others': an issued token, expired
C6_Witness ==
    /\ GuardRejected
    /\ Presented \in issued
    /\ resp.status = 401
    /\ resp.body.error = MSG_EXPIRED

\* The last request presented "Authorization: Bearer <tok>"
PresentedAsBearer(tok) ==
    /\ req.route = "secret"
    /\ "Authorization" \in DOMAIN req.headers
    /\ req.headers["Authorization"] = Bearer(tok)

\* C7: a token returned by a successful login, presented as "Bearer <token>"
\* to GET /api/secret at any instant before its expires_at, yields 200 with
\* the secret payload (the guard reads the request, the key and the clock only).
C7_IssuedTokenAccepted ==
    \A t \in issued :
        PresentedAsBearer(t) /\ BeforeExpiry(t, req.at) =>
            /\ resp.status = 200
            /\ "secret" \in DOMAIN resp.body
            /\ resp.body.secret = SECRET_TEXT
            /\ trace.handler

\* an issued token accepted at the last instant before it expires
C7_Witness ==
    \E t \in issued :
        /\ PresentedAsBearer(t)
        /\ req.at + 1 = t.payload.exp * TicksPerSecond
        /\ resp.status = 200

\* C8 as stated: a login request that carries no matching username/password
\* pair is answered 401 with an 'error' body and no token, whatever its body.
C8_LoginFailuresAre401 ==
    req.route = "login" /\ ~MatchingPair(req.body) =>
        /\ resp.status = 401
        /\ "error" \in DOMAIN resp.body
        /\ "token" \notin DOMAIN resp.body

\* Shapes of the Authorization header of the last request
HeaderAbsent == "Authorization" \notin DOMAIN req.headers
HeaderValue == req.headers["Authorization"]
IsSpace(x) == x.k = "ch" /\ x.c = " "
\* the value does not begin with the seven characters "Bearer "
NotBearerPrefixed ==
    \/ Len(HeaderValue) < 7
    \/ \E i \in 1..7 : HeaderValue[i] # BearerPrefix[i]
\* the value is "Bearer " followed by whitespace only
BearerOfNothing ==
    /\ Len(HeaderValue) >= 7
    /\ \A i \in 1..7 : HeaderValue[i] = BearerPrefix[i]
    /\ \A i \in 8..Len(HeaderValue) : IsSpace(HeaderValue[i])

\* C9: with the Authorization header absent, not beginning with the
\* case-sensitive prefix "Bearer ", or with nothing but whitespace after the
\* prefix, the guard answers 401 without decoding a token or running the handler.
C9_HeaderParsedFirst ==
    req.route = "secret" /\ (HeaderAbsent \/ NotBearerPrefixed \/ BearerOfNothing) =>
        /\ resp.status = 401
        /\ "error" \in DOMAIN resp.body
        /\ ~trace.decoded
        /\ ~trace.handler

\* "bearer <token>" with an issued, unexpired token is rejected undecoded
C9_Witness ==
    /\ req.route = "secret"
    /\ ~HeaderAbsent
    /\ \E t \in issued : HeaderValue = LowerPrefix \o <<Tk(t)>> /\ BeforeExpiry(t, req.at)
    /\ resp.status = 401
    /\ ~trace.decoded

\* jwt.decode succeeded on the token of the last guarded request
DecodeSucceeded ==
    GuardDecoded /\ jwt_decode(Presented, JWT_SECRET_KEY, {"HS256"}, req.at) = "ok"

\* C10 as stated: when the token decodes, the request is forwarded to the
\* handler with the decoded claims attached to the request context.
C10_ClaimsAttached ==
    DecodeSucceeded =>
        /\ trace.handler
        /\ "claims" \in DOMAIN trace.g
        /\ trace.g["claims"] = Presented.payload

\* C10 amended: when the token decodes, the request is forwarded to the
\* handler and the handler's response is returned; the decoded claims are
\* dropped and the request context is left as it was (empty).
C10_ForwardedWithoutClaims ==
    DecodeSucceeded =>
        /\ trace.handler
        /\ resp.status = 200
        /\ "secret" \in DOMAIN resp.body
        /\ trace.g = EmptyDict

C10_Witness ==
    /\ DecodeSucceeded
    /\ Presented \in issued
    /\ trace.handler
    /\ trace.g = EmptyDict

\* The last request was a login answered with a token
LoginSucceeded == req.route = "login" /\ resp.status = 200 /\ "token" \in DOMAIN resp.body

\* C11 as stated: on a successful login the token's iat is the clock value at
\* issuance, its exp is exactly iat + JWT_EXPIRATION_DELTA, and the expires_at
\* of the response is the instant of the token's exp.
C11_ResponseExpiryIsTokenExpiry ==
    LoginSucceeded =>
        /\ resp.body.token.payload.iat = Seconds(req.at)
        /\ resp.body.token.payload.exp = resp.body.token.payload.iat + JWT_EXPIRATION_DELTA
        /\ resp.body.expires_at = resp.body.token.payload.exp

\* C12 as stated: a token lacking one of the claims sub, iat, exp is rejected
\* as malformed by the guard even when it is correctly signed.
C12_MissingClaimRejected ==
    /\ GuardDecoded
    /\ SignatureVerifies(Presented)
    /\ \E name \in {"sub", "iat", "exp"} : ~HasClaim(Presented, name)
    => /\ resp = ErrorResponse(MSG_INVALID)
       /\ ~trace.handler

\* C13: a token whose header declares an algorithm other than HS256 (an
\* unsigned "none" token, a token signed under another scheme) is rejected
\* with 401 and the handler is not run, whatever its payload and expiry.
C13_OtherAlgorithmRejected ==
    GuardDecoded /\ Presented.shape = "jws" /\ Presented.alg # "HS256" =>
        /\ resp = ErrorResponse(MSG_INVALID)
        /\ ~trace.handler

\* an unexpired token signed with the server's key under HS512 is rejected
C13_Witness ==
    /\ GuardDecoded
    /\ Presented.shape = "jws" /\ Presented.alg = "HS512"
    /\ B64Decode(Presented.sig) = HMAC(JWT_SECRET_KEY, "HS512", Presented.payload)
    /\ BeforeExpiry(Presented, req.at)
    /\ resp.status = 401

\* The last step encoded the claim set and decoded the token
RoundTripped == req.route = "codec"
Encoded == req.body.v
Decoded == resp.body.claims

\* C14 as stated: decoding the token made from a claim set c returns claims
\* equal to c whenever the current time is before c.expires_at.
C14_RoundTrip ==
    RoundTripped /\ req.at < Encoded.exp =>
        /\ resp.body.outcome = "ok"
        /\ DOMAIN Decoded = DOMAIN Encoded
        /\ Decoded.sub = Encoded.sub
        /\ Decoded.iat * TicksPerSecond = Encoded.iat
        /\ Decoded.exp * TicksPerSecond = Encoded.exp

\* C14 amended: decoding the token made from a claim set c returns c with its
\* issued_at and expires_at cut to whole seconds, provided the current time
\* is not before the whole second of c.issued_at and is before the whole
\* second of c.expires_at; outside that window the decoding fails.
C14_RoundTripWholeSeconds ==
    RoundTripped =>
        IF /\ (Encoded.iat \div TicksPerSecond) * TicksPerSecond <= req.at
           /\ req.at < (Encoded.exp \div TicksPerSecond) * TicksPerSecond
        THEN /\ resp.body.outcome = "ok"
             /\ DOMAIN Decoded = DOMAIN Encoded
             /\ Decoded.sub = Encoded.sub
             /\ Decoded.iat = Encoded.iat \div TicksPerSecond
             /\ Decoded.exp = Encoded.exp \div TicksPerSecond
        ELSE resp.body.outcome \in {"ImmatureSignatureError", "ExpiredSignatureError"}

\* a claim set issued within the running second, not on a whole second
C14_Witness ==
    /\ RoundTripped
    /\ resp.body.outcome = "ok"
    /\ Encoded.iat % TicksPerSecond # 0
    /\ Encoded.exp = Encoded.iat + TTLTicks
    /\ Decoded.iat * TicksPerSecond < Encoded.iat

\* The tokens the login endpoint can issue
IssuableTokens ==
    { generate_jwt_token(u, SECRET, i) : u \in {"usuario_demo"}, i \in Instants }

\* The last request presented the token t and the guard ran the handler
AcceptedToken(t) == PresentedAsBearer(t) /\ trace.handler /\ resp.status = 200
\* The last request presented the token t and the guard rejected it as expired
RejectedAsExpired(t) ==
    PresentedAsBearer(t) /\ ~trace.handler /\ resp = ErrorResponse(MSG_EXPIRED)

\* C15: the clock never runs backwards; an issued token is accepted at every
\* guard check made while now < exp and rejected as expired at every check
\* made once now >= exp (so nothing rejects it before its expiry); and once a
\* check has rejected it as expired, no later check accepts it.
C15_TokenLifecycle ==
    /\ [][clock' >= clock]_vars
    /\ [](\A t \in issued : PresentedAsBearer(t) =>
            IF req.at < t.payload.exp * TicksPerSecond
                THEN AcceptedToken(t) ELSE RejectedAsExpired(t))
    /\ \A t \in IssuableTokens :
            [](RejectedAsExpired(t) => [](PresentedAsBearer(t) => ~trace.handler))

\* an issued token rejected as expired some time after its expiry
C15_Witness ==
    \E t \in issued :
        /\ RejectedAsExpired(t)
        /\ req.at > t.payload.exp * TicksPerSecond

\* The response a request gets when it is the only request, handled at the
\* same readings of the clock
RunAlone(r) ==
    IF r.route = "login"
        THEN login(r.body, StartupCredentials, SECRET, r.at, r.done)
        ELSE decorated_function(protected_secret, r.headers, SECRET, r.done).resp

\* C16: whatever the interleaving of the steps of the requests in flight, the
\* response of each request is the one it gets when run alone at the same
\* readings of the clock.
C16_NoInterference ==
    req.route \in {"login", "secret"} => resp = RunAlone(req)

\* a login has answered 200 after its two readings of the clock, made at
\* different instants, while a guarded request and another login that read
\* the clock with it are still in flight
C16_Witness ==
    /\ req.route = "login" /\ resp.status = 200 /\ req.done > req.at
    /\ \E v, w \in Workers :
        /\ inflight[v].pc = "issuing" /\ inflight[v].now1 = req.at
        /\ inflight[w].pc = "received" /\ inflight[w].route = "secret"

\* The login body with the pair of the credential store
ValidLoginBody ==
    JObject([username |-> Str("usuario_demo"), password |-> Str("password123")])

\* the request handled last was a login or a guarded request that failed
LastRequestFailed ==
    /\ req.route \in {"login", "secret"}
    /\ resp.status \in {401, 500}

\* the token has not expired at the present instant
Unexpired(t) == clock < t.payload.exp * TicksPerSecond

\* C17: in every state a failed login or a rejected guarded request leaves
\* behind, a login with the valid pair made now answers 200 with a token, and
\* every issued token that has not expired, presented now, is let through to
\* the handler, which answers 200.
C17_FailureRejectsOnlyItself ==
    LastRequestFailed =>
        /\ LET r == login(ValidLoginBody, USER_CREDENTIALS, JWT_SECRET_KEY, clock, clock)
           IN  r.status = 200 /\ "token" \in DOMAIN r.body
        /\ \A t \in issued : Unexpired(t) =>
              LET r == decorated_function(protected_secret, WithAuthorization(Bearer(t)),
                                          JWT_SECRET_KEY, clock)
              IN  r.trace.handler /\ r.resp = protected_secret

\* a login has just failed while the client holds an unexpired token
C17_Witness ==
    /\ req.route = "login" /\ resp.status = 401
    /\ \E t \in issued : Unexpired(t)

\* C18: after any sequence of requests USER_CREDENTIALS and JWT_SECRET_KEY
\* have the values the module was loaded with.
C18_GlobalsUnchanged ==
    /\ USER_CREDENTIALS = StartupCredentials
    /\ JWT_SECRET_KEY = SECRET

\* a guarded request has been rejected after a successful login
C18_Witness ==
    /\ issued # {}
    /\ req.route = "secret" /\ resp.status = 401

\* C19: GET /api/public of either application answers 200 with the public
\* message, whatever the Authorization header of the request.
C19_PublicAlways200 ==
    req.route \in {"public", "ej3c1_public"} =>
        /\ resp.status = 200
        /\ resp = public_endpoint

\* the public endpoint of the JWT application has answered a request that
\* carries an issued token which had expired
C19_Witness ==
    /\ req.route = "public"
    /\ \E t \in issued :
        /\ req.headers = WithAuthorization(Bearer(t))
        /\ req.at >= t.payload.exp * TicksPerSecond
    /\ resp.status = 200

\* the Authorization header of a request to ej3c1 is absent, is not of the
\* form "Bearer TOKEN", or carries a token other than API_TOKEN
StaticUnauthorized ==
    \/ "Authorization" \notin DOMAIN req.headers
    \/ /\ "Authorization" \in DOMAIN req.headers
       /\ \/ ~StartsWith(req.headers.Authorization, BearerPrefix)
          \/ req.headers.Authorization # Bearer(PlainToken(API_TOKEN))

\* C20: ej3c1's GET /api/secret answers 401 with a JSON body that has an
\* 'error' entry, without running the handler, when the Authorization header
\* is absent, not of the form "Bearer TOKEN", or carries another token.
C20_StaticGuardRejects ==
    (req.route = "ej3c1_secret" /\ StaticUnauthorized) =>
        /\ resp.status = 401
        /\ resp.json
        /\ "error" \in DOMAIN resp.body
        /\ ~trace.handler

\* C21: ej3c1's GET /api/secret with "Authorization: Bearer <API_TOKEN>" runs
\* the protected handler and answers 200 with a JSON body whose 'secret' entry
\* is the text with 42.
C21_StaticTokenAccepted ==
    (/\ req.route = "ej3c1_secret"
     /\ req.headers = WithAuthorization(Bearer(PlainToken(API_TOKEN)))) =>
        /\ resp.status = 200
        /\ resp.json
        /\ "secret" \in DOMAIN resp.body
        /\ resp.body.secret = SECRET_TEXT
        /\ trace.handler

----------------------------------------------------------------------------
(* ej3a4.py: the library in MongoDB (PyMongo). A collection is the set of   *)
(* its documents; an ObjectId is the number of the id, in order of making.  *)

\* What a Python call ends with: a returned value or a raised exception
Returned(v) == [kind |-> "return", value |-> v]
Raised(e) == [kind |-> "raise", value |-> e]

Autor(id, nombre) == [_id |-> id, nombre |-> nombre]
Libro(id, titulo, anio, autor_id) ==
    [_id |-> id, titulo |-> titulo, anio |-> anio, autor_id |-> autor_id]

\* crear_colecciones(db): the unique index on autores.nombre cannot be built
\* over documents that share a name (the other indexes hold nothing back)
crear_colecciones(d) ==
    IF \E a, b \in d.autores : a # b /\ a.nombre = b.nombre
        THEN [db |-> d, out |-> Raised("DuplicateKeyError")]
        ELSE [db |-> [d EXCEPT !.unique = TRUE], out |-> Returned("None")]

\* The documents of a list that an ordered insert_many wrote before it failed
Written(docs, n) == { docs[i] : i \in 1..n }

\* ejemplo_transaccion(db). What the server does is given by failed (the
\* insert_one of the author fails for a reason of the server or the network)
\* and written (how many of the two books insert_many wrote; fewer than two
\* is a BulkWriteError). inserted: the ids of the documents the call wrote.
ejemplo_transaccion(d, failed, written) ==
    LET autor == Autor(d.ids + 1, "Autor Temporal")
        duplicate == d.unique /\ \E a \in d.autores : a.nombre = autor.nombre
        docs == << Libro(d.ids + 2, "Libro Temporal 1", 2001, autor._id),
                   Libro(d.ids + 3, "Libro Temporal 2", 2002, autor._id) >>
    IN  IF failed \/ duplicate
            \* insert_one raised: autor_id is None, libro_ids is []
            THEN [db |-> d, out |-> Returned(FALSE), inserted |-> {}]
        ELSE LET d1 == [d EXCEPT !.autores = @ \cup {autor}, !.ids = @ + 1]
                 d2 == [d1 EXCEPT !.libros = @ \cup Written(docs, written), !.ids = @ + 2]
             IN  IF written = 2
                     THEN [db |-> d2, out |-> Returned(TRUE),
                           inserted |-> {autor._id, docs[1]._id, docs[2]._id}]
                 ELSE \* insert_many raised before libro_ids was assigned:
                      \* the rollback deletes the ids in libro_ids = [], then the author
                      LET libro_ids == {}
                          d3 == [d2 EXCEPT !.libros = { b \in @ : b._id \notin libro_ids }]
                          d4 == [d3 EXCEPT !.autores = { a \in @ : a._id # autor._id }]
                      IN  [db |-> d4, out |-> Returned(FALSE),
                           inserted |-> {autor._id} \cup { b._id : b \in Written(docs, written) }]

\* actualizar_libro(db, id_libro, nuevo_titulo, nuevo_anio): the dictionary is
\* bound to the name pdate and then used under the name update, which is
\* bound nowhere: the first statement that reads it raises NameError
actualizar_libro(d, id_libro, nuevo_titulo, nuevo_anio) ==
    [db |-> d, out |-> Raised("NameError")]

\* eliminar_libro(db, id_libro)
eliminar_libro(d, id_libro) ==
    [db |-> [d EXCEPT !.libros = { b \in @ : b._id # id_libro }],
     out |-> Returned(\E b \in d.libros : b._id = id_libro)]

\* The calls made on the MongoDB library
CrearColecciones ==
    LET r == crear_colecciones(db)
    IN  /\ ~db.unique
        /\ db' = r.db
        /\ call' = [name |-> "crear_colecciones", out |-> r.out]
        /\ UNCHANGED webvars

EjemploTransaccion ==
    \E failed \in BOOLEAN, written \in 0..2 :
        LET r == ejemplo_transaccion(db, failed, written)
        IN  /\ db.ids + 3 <= MaxIds
            /\ db' = r.db
            /\ call' = [name |-> "ejemplo_transaccion", out |-> r.out,
                        inserted |-> r.inserted, written |-> written]
            /\ UNCHANGED webvars

\* The ids a caller passes: those of the stored books and one of no book
LibroIds == { b._id : b \in db.libros } \cup {0}
NuevosTitulos == {PyNone, Str("Titulo nuevo")}
NuevosAnios == {PyNone, PyInt(1999)}

ActualizarLibro ==
    \E id \in LibroIds, titulo \in NuevosTitulos, anio \in NuevosAnios :
        LET r == actualizar_libro(db, id, titulo, anio)
        IN  /\ db' = r.db
            /\ call' = [name |-> "actualizar_libro", out |-> r.out, id |-> id,
                        titulo |-> titulo, anio |-> anio, before |-> db.libros]
            /\ UNCHANGED webvars

EliminarLibro ==
    \E id \in LibroIds :
        LET r == eliminar_libro(db, id)
        IN  /\ db' = r.db
            /\ call' = [name |-> "eliminar_libro", out |-> r.out, id |-> id]
            /\ UNCHANGED webvars

NextMongo == CrearColecciones \/ EjemploTransaccion \/ ActualizarLibro \/ EliminarLibro

SpecMongo == Init /\ [][NextMongo]_vars

\* the ids of the documents stored
StoredIds == { a._id : a \in db.autores } \cup { b._id : b \in db.libros }

\* C22: ejemplo_transaccion either returns True with the new author and its
\* two books stored, or returns False with none of the documents it wrote
\* left in the database.
C22_AllOrNothing ==
    call.name = "ejemplo_transaccion" =>
        \/ /\ call.out = Returned(TRUE)
           /\ Cardinality(call.inserted) = 3
           /\ call.inserted \subseteq StoredIds
        \/ /\ call.out = Returned(FALSE)
           /\ call.inserted \cap StoredIds = {}

----------------------------------------------------------------------------
(* The SQLite database of the Flask-SQLAlchemy programs (3b): the tables    *)
(* authors and books, each the set of its rows.                             *)

EmptyTables == [authors |-> {}, books |-> {}]

AuthorRow(id, name) == [id |-> id, name |-> name]
BookRow(id, title, year, author_id) ==
    [id |-> id, title |-> title, year |-> year, author_id |-> author_id]

\* INTEGER PRIMARY KEY of SQLite: a new row gets the largest id plus one
MaxId(rows) == CHOOSE m \in {0} \cup { r.id : r \in rows } : \A r \in rows : r.id <= m
NewRowId(rows) == MaxId(rows) + 1

\* A Python int bound as a parameter of a statement: SQLite INTEGER has 64
\* bits (OverflowError above); True and False are the ints 1 and 0
Overflows(x) == x.t = "huge"
AsInteger(x) == IF x.t = "bool" THEN (IF x.v THEN 1 ELSE 0) ELSE x.v

\* db.session.get(Model, id): the rows with that primary key (one or none)
SessionGet(rows, id) == { r \in rows : r.id = AsInteger(id) }

\* Flask's answers that are not made by jsonify
NotFound == [status |-> 404, json |-> FALSE, body |-> EmptyDict]
NoContent == [status |-> 204, json |-> FALSE, body |-> EmptyDict]

\* to_dict() of a row
ToDict(row) == row

----------------------------------------------------------------------------
(* ej3b3.py: the API with JSON schema validation. The schema files are not  *)
(* among the sources; the schemas are those the models and the docstrings   *)
(* of the endpoints describe.                                               *)

\* author_schema.json: an object with a string "name"
author_schema(data) ==
    /\ data.t = "dict"
    /\ "name" \in DOMAIN data.v
    /\ data.v.name.t = "str"

\* book_schema.json: an object with a string "title", an integer "author_id"
\* and, if present, an integer "year"
book_schema(data) ==
    /\ data.t = "dict"
    /\ "title" \in DOMAIN data.v /\ data.v.title.t = "str"
    /\ "author_id" \in DOMAIN data.v /\ data.v.author_id.t \in {"int", "huge"}
    /\ "year" \in DOMAIN data.v => data.v.year.t \in {"int", "huge"}

\* POST /authors
ej3b3_add_author(d, data) ==
    IF data = PyNone
        THEN [db |-> d, resp |-> JsonResponse(400, [error |-> "El cuerpo debe ser JSON valido"])]
    ELSE IF ~author_schema(data)
        THEN [db |-> d, resp |-> JsonResponse(400, [error |-> "ValidationError"])]
    ELSE LET autor == AuthorRow(NewRowId(d.authors), data.v.name.v)
         IN  [db |-> [d EXCEPT !.authors = @ \cup {autor}],
              resp |-> JsonResponse(201, ToDict(autor))]

\* POST /books
ej3b3_add_book(d, data) ==
    IF data = PyNone
        THEN [db |-> d, resp |-> JsonResponse(400, [error |-> "El cuerpo debe ser JSON valido"])]
    ELSE IF ~book_schema(data)
        THEN [db |-> d, resp |-> JsonResponse(400, [error |-> "ValidationError"])]
    ELSE LET author_id == data.v.author_id
             year == DictGet(data.v, "year")
         IN  IF Overflows(author_id)
                 \* db.session.get binds author_id: OverflowError, uncaught
                 THEN [db |-> d, resp |-> InternalServerError]
             ELSE IF SessionGet(d.authors, author_id) = {}
                 THEN [db |-> d,
                       resp |-> JsonResponse(404,
                                  [error |-> "No existe un autor con el id proporcionado"])]
             ELSE IF Overflows(year)
                 \* db.session.commit binds year: OverflowError, uncaught
                 THEN [db |-> d, resp |-> InternalServerError]
             ELSE LET libro == BookRow(NewRowId(d.books), data.v.title.v, year,
                                       AsInteger(author_id))
                  IN  [db |-> [d EXCEPT !.books = @ \cup {libro}],
                       resp |-> JsonResponse(201, ToDict(libro))]

\* The bodies the clients post
AuthorBodies ==
    { PyNone, PyList, JObject(EmptyDict), JObject([name |-> PyInt(1)]),
      JObject([name |-> Str("Ana")]), JObject([name |-> Str("Luis")]) }

\* author ids: those of the rows the table can hold, one beyond, and 2**63
AuthorRefs == { PyInt(n) : n \in 1..(MaxRows + 1) } \cup {PyHuge}

BookBodies ==
    { PyNone, PyList, JObject([title |-> Str("T")]), JObject([author_id |-> PyInt(1)]) }
    \cup { JObject([title |-> t, author_id |-> a]) :
             t \in {Str("T"), PyInt(7)}, a \in AuthorRefs \cup {Str("1")} }
    \cup { JObject([title |-> Str("T"), author_id |-> a, year |-> y]) :
             a \in {PyInt(1)}, y \in {PyInt(1967), Str("x"), PyHuge} }

SchemaAddAuthor ==
    \E data \in AuthorBodies :
        LET r == ej3b3_add_author(db, data)
        IN  /\ Cardinality(r.db.authors) <= MaxRows
            /\ db' = r.db
            /\ call' = [name |-> "add_author", body |-> data, resp |-> r.resp, before |-> db]
            /\ UNCHANGED webvars

SchemaAddBook ==
    \E data \in BookBodies :
        LET r == ej3b3_add_book(db, data)
        IN  /\ Cardinality(r.db.books) <= MaxRows
            /\ db' = r.db
            /\ call' = [name |-> "add_book", body |-> data, resp |-> r.resp, before |-> db]
            /\ UNCHANGED webvars

NextSchema == SchemaAddAuthor \/ SchemaAddBook

SpecSchema == InitWith(EmptyTables) /\ [][NextSchema]_vars

\* the author_id of the posted body is the id of a stored author
NamesStoredAuthor(data) ==
    /\ data.v.author_id.t = "int"
    /\ \E a \in call.before.authors : a.id = data.v.author_id.v

\* C23: POST /books answers 400 when the body does not satisfy the book
\* schema and 404 when it does but its author_id is the id of no author, no
\* book being stored in either case; it answers 201, with one book stored,
\* only when the schema is satisfied and the author exists.
C23_BookValidated ==
    call.name = "add_book" =>
        /\ ~book_schema(call.body) =>
              call.resp.status = 400 /\ db.books = call.before.books
        /\ (book_schema(call.body) /\ ~NamesStoredAuthor(call.body)) =>
              call.resp.status = 404 /\ db.books = call.before.books
        /\ call.resp.status = 201 =>
              /\ book_schema(call.body) /\ NamesStoredAuthor(call.body)
              /\ Cardinality(db.books) = Cardinality(call.before.books) + 1

----------------------------------------------------------------------------
(* ej3a2.py: the library in SQLite (sqlite3). test.sql, which creates the   *)
(* tables and their first rows, is not among the sources; the tables are    *)
(* those the statements of the module read and write.                       *)

LibroFila(id, titulo, anio, autor_id) ==
    [id |-> id, titulo |-> titulo, anio |-> anio, autor_id |-> autor_id]

\* crear_bd_desde_sql(): the database test.sql makes, with its authors
BibliotecaInicial ==
    [autores |-> { [id |-> 1, nombre |-> "Gabriel Garcia Marquez"],
                   [id |-> 2, nombre |-> "Isabel Allende"] },
     libros |-> {}]

\* agregar_libro(conexion, titulo, anio, autor_id)
agregar_libro(d, titulo, anio, autor_id) ==
    LET id == NewRowId(d.libros)
    IN  [db |-> [d EXCEPT !.libros = @ \cup {LibroFila(id, titulo, anio, autor_id)}],
         out |-> Returned(id)]

\* The row after "UPDATE libros SET <the fields that are not None>"
Actualizado(fila, nuevo_titulo, nuevo_anio, nuevo_autor_id) ==
    [fila EXCEPT !.titulo = IF nuevo_titulo = PyNone THEN @ ELSE nuevo_titulo.v,
                 !.anio = IF nuevo_anio = PyNone THEN @ ELSE nuevo_anio.v,
                 !.autor_id = IF nuevo_autor_id = PyNone THEN @ ELSE nuevo_autor_id.v]

\* actualizar_libro(conexion, libro_id, nuevo_titulo, nuevo_anio, nuevo_autor_id)
MutActualizarSinWhere(d, libro_id, nuevo_titulo, nuevo_anio, nuevo_autor_id) ==
    IF ~\E f \in d.libros : f.id = libro_id
        THEN [db |-> d, out |-> Returned(FALSE)]
    ELSE IF nuevo_titulo = PyNone /\ nuevo_anio = PyNone /\ nuevo_autor_id = PyNone
        THEN [db |-> d, out |-> Returned(FALSE)]
    ELSE [db |-> [d EXCEPT !.libros =
                    { Actualizado(f, nuevo_titulo, nuevo_anio, nuevo_autor_id) : f \in @ }],
          out |-> Returned(TRUE)]

ej3a2_actualizar_libro(d, libro_id, nuevo_titulo, nuevo_anio, nuevo_autor_id) ==
    IF ~\E f \in d.libros : f.id = libro_id
        THEN [db |-> d, out |-> Returned(FALSE)]
    ELSE IF nuevo_titulo = PyNone /\ nuevo_anio = PyNone /\ nuevo_autor_id = PyNone
        \* campos is empty: nothing to update
        THEN [db |-> d, out |-> Returned(FALSE)]
    ELSE LET filas == { f \in d.libros : f.id = libro_id }
         IN  [db |-> [d EXCEPT !.libros =
                        { IF f \in filas
                              THEN Actualizado(f, nuevo_titulo, nuevo_anio, nuevo_autor_id)
                              ELSE f : f \in @ }],
              out |-> Returned(Cardinality(filas) > 0)]

SqliteAgregarLibro ==
    \E titulo \in {"A", "B"}, anio \in {2022}, autor_id \in {1, 2} :
        LET r == agregar_libro(db, titulo, anio, autor_id)
        IN  /\ Cardinality(db.libros) < MaxRows
            /\ db' = r.db
            /\ call' = [name |-> "agregar_libro", out |-> r.out]
            /\ UNCHANGED webvars

SqliteActualizarLibro ==
    \E libro_id \in 1..(MaxRows + 1), nuevo_titulo \in {PyNone, Str("B")},
       nuevo_anio \in {PyNone, PyInt(2023)}, nuevo_autor_id \in {PyNone, PyInt(2)} :
        LET r == ej3a2_actualizar_libro(db, libro_id, nuevo_titulo, nuevo_anio, nuevo_autor_id)
        IN  /\ db' = r.db
            /\ call' = [name |-> "ej3a2_actualizar_libro", out |-> r.out,
                        libro_id |-> libro_id, nuevo_titulo |-> nuevo_titulo,
                        nuevo_anio |-> nuevo_anio, nuevo_autor_id |-> nuevo_autor_id,
                        before |-> db.libros]
            /\ UNCHANGED webvars

NextSqlite == SqliteAgregarLibro \/ SqliteActualizarLibro

SpecSqlite == InitWith(BibliotecaInicial) /\ [][NextSqlite]_vars

\* the call found a book with the id it was given
LibroExiste == \E f \in call.before : f.id = call.libro_id
\* the call was given no new value
NadaQueActualizar ==
    call.nuevo_titulo = PyNone /\ call.nuevo_anio = PyNone /\ call.nuevo_autor_id = PyNone

\* the books after the call: the book of the given id with each field that
\* was not None set to the new value and the others kept, every other book as
\* it was
CamposActualizados ==
    db.libros =
        { IF f.id = call.libro_id
              THEN Actualizado(f, call.nuevo_titulo, call.nuevo_anio, call.nuevo_autor_id)
              ELSE f : f \in call.before }

----------------------------------------------------------------------------
\* src/3b/ej3b1.py: the SQLAlchemy session functions over authors and books

\* session.query(Author).filter(Author.name == author_name).one_or_none()
AuthorNamed(d, author_name) == { a \in d.authors : a.name = author_name }

MutCreateBookNewAuthor(d, title, author_name, year) ==
    LET author == AuthorRow(NewRowId(d.authors), author_name)
        book == BookRow(NewRowId(d.books), title, year, author.id)
    IN  [db |-> [authors |-> d.authors \cup {author},
                 books |-> d.books \cup {book}],
         out |-> Returned(book)]

\* create_book: the author of that name, added when there is none, then the
\* book that refers to it; both are committed together
ej3b1_create_book(d, title, author_name, year) ==
    LET found == AuthorNamed(d, author_name)
        author == IF found = {}
                  THEN AuthorRow(NewRowId(d.authors), author_name)
                  ELSE CHOOSE a \in found : TRUE
        book == BookRow(NewRowId(d.books), title, year, author.id)
    IN  [db |-> [authors |-> d.authors \cup {author},
                 books |-> d.books \cup {book}],
         out |-> Returned(book)]

\* update_book: None when no book has the id, else the book with the fields
\* that are not None replaced
ej3b1_update_book(d, book_id, new_title, new_year) ==
    LET found == { b \in d.books : b.id = book_id }
    IN  IF found = {}
        THEN [db |-> d, out |-> Returned(PyNone)]
        ELSE LET book == CHOOSE b \in found : TRUE
                 updated == [book EXCEPT
                     !.title = IF new_title # PyNone THEN new_title.v ELSE @,
                     !.year = IF new_year # PyNone THEN new_year ELSE @]
             IN  [db |-> [d EXCEPT !.books = (@ \ {book}) \cup {updated}],
                  out |-> Returned(updated)]

\* delete_book: False when no book has the id, else the book is deleted
ej3b1_delete_book(d, book_id) ==
    LET found == { b \in d.books : b.id = book_id }
    IN  IF found = {}
        THEN [db |-> d, out |-> Returned(FALSE)]
        ELSE [db |-> [d EXCEPT !.books = @ \ found], out |-> Returned(TRUE)]

OrmTitles == {"Titulo", "Otro"}
OrmAuthorNames == {"Isabel Allende", "Autor de Prueba"}
OrmYears == {PyNone, PyInt(2025)}

OrmCreateBook ==
    /\ Cardinality(db.books) < MaxRows
    /\ \E title \in OrmTitles, author_name \in OrmAuthorNames, year \in OrmYears :
         LET r == ej3b1_create_book(db, title, author_name, year)
         IN  /\ db' = r.db
             /\ call' = [name |-> "create_book", out |-> r.out,
                         author_name |-> author_name, before |-> db]
    /\ UNCHANGED webvars

OrmUpdateBook ==
    /\ \E book_id \in 1..MaxRows, new_title \in {PyNone, Str("Otro")},
          new_year \in {PyNone, PyInt(2026)} :
         LET r == ej3b1_update_book(db, book_id, new_title, new_year)
         IN  /\ db' = r.db
             /\ call' = [name |-> "update_book", out |-> r.out, before |-> db]
    /\ UNCHANGED webvars

OrmDeleteBook ==
    /\ \E book_id \in 1..MaxRows :
         LET r == ej3b1_delete_book(db, book_id)
         IN  /\ db' = r.db
             /\ call' = [name |-> "delete_book", out |-> r.out, before |-> db]
    /\ UNCHANGED webvars

NextOrm == OrmCreateBook \/ OrmUpdateBook \/ OrmDeleteBook

SpecOrm == InitWith(EmptyTables) /\ [][NextOrm]_vars

\* C25: create_book reuses an existing author: no two Author rows bear the
\* same name, the book a call created refers to the author bearing the given
\* name, and a call with a known author name adds exactly one book and no
\* author
C25_AuthorReused ==
    /\ \A a, b \in db.authors : a.name = b.name => a = b
    /\ call.name = "create_book" =>
         LET book == call.out.value
         IN  /\ call.out.kind = "return"
             /\ book \in db.books /\ book \notin call.before.books
             /\ \A b \in call.before.books : b.id # book.id
             /\ \E a \in db.authors :
                  a.id = book.author_id /\ a.name = call.author_name
             /\ AuthorNamed(call.before, call.author_name) # {} =>
                  /\ db.authors = call.before.authors
                  /\ db.books = call.before.books \cup {book}

C25_Witness ==
    /\ call.name = "create_book"
    /\ AuthorNamed(call.before, call.author_name) # {}
    /\ Cardinality(db.authors) = 2
    /\ Cardinality(db.books) = 2

----------------------------------------------------------------------------
\* The order of the guard's steps (ej3c2.py, decorated_function)

\* The token the guard decoded is the one of the last request's header
PresentedInRequest ==
    /\ ~HeaderAbsent
    /\ HasBearerScheme(HeaderValue)
    /\ Presented = AsToken(Strip(AfterFirstSpace(HeaderValue)))

\* The secret is nowhere in the last response
SecretAbsent ==
    /\ "secret" \notin DOMAIN resp.body
    /\ \A k \in DOMAIN resp.body : resp.body[k] # SECRET_TEXT

\* C26: the protected handler runs only after the token of the same request
\* has been decoded successfully; on each rejection path of the guard the
\* wrapped function is not called and the secret is not in the response.
C26_HandlerOnlyAfterDecode ==
    req.route = "secret" =>
        /\ trace.handler => DecodeSucceeded /\ PresentedInRequest
        /\ ~DecodeSucceeded => ~trace.handler /\ SecretAbsent

\* a rejection after the decode: a token signed with another key
C26_Witness ==
    /\ req.route = "secret" /\ PresentedInRequest
    /\ jwt_decode(Presented, JWT_SECRET_KEY, {"HS256"}, req.at) = "InvalidSignatureError"
    /\ ~trace.handler /\ SecretAbsent

\* The token of the last guarded request has no expiry that has passed
NotExpired(tok, now) == ~AtOrAfterExpiry(tok, now)

C28_SignatureBeforeExpiry ==
    /\ GuardDecoded /\ ~SignatureVerifies(Presented) =>
         resp = ErrorResponse(MSG_INVALID)
    /\ req.route = "secret" /\ resp = ErrorResponse(MSG_EXPIRED) =>
         GuardDecoded /\ SignatureVerifies(Presented) /\ AtOrAfterExpiry(Presented, req.at)

\* a token both expired and signed with another key
C28_Witness ==
    /\ GuardDecoded
    /\ Presented.shape = "jws" /\ Presented.alg = "HS256"
    /\ ~SignatureVerifies(Presented)
    /\ AtOrAfterExpiry(Presented, req.at)
    /\ IssuedByNow(Presented, req.at)
    /\ resp = ErrorResponse(MSG_INVALID)

\* The book b after $set of the fields that are not None
LibroActualizado(b, titulo, anio) ==
    [b EXCEPT !.titulo = IF titulo # PyNone THEN titulo.v ELSE @,
              !.anio = IF anio # PyNone THEN anio.v ELSE @]

\* C29: ej3a4.actualizar_libro returns without raising; with both fields None
\* it returns False and leaves the books as they were; otherwise it returns
\* True iff a book has the id, and that book has exactly the fields that were
\* not None replaced, every other book being as before.
C29_ActualizarLibro ==
    call.name = "actualizar_libro" =>
        /\ call.out.kind = "return"
        /\ IF call.titulo = PyNone /\ call.anio = PyNone
           THEN call.out = Returned(FALSE) /\ db.libros = call.before
           ELSE /\ call.out = Returned(\E b \in call.before : b._id = call.id)
                /\ db.libros =
                     { IF b._id = call.id
                       THEN LibroActualizado(b, call.titulo, call.anio) ELSE b :
                       b \in call.before }

----------------------------------------------------------------------------
\* src/3b/ej3b2.py: the library API without schemas

\* request.get_json(silent=True) or {}
JsonOrEmpty(data) == IF Truthy(data) THEN data ELSE JObject(EmptyDict)

\* int(year) of a JSON value: "ok" or the exception it raises
IntOf(year) ==
    IF year.t \in {"int", "bool", "huge"} THEN "ok"
    ELSE IF year.t = "str" THEN "ValueError"
    ELSE "TypeError"

\* POST /authors
ej3b2_add_author(d, body) ==
    LET data == JsonOrEmpty(body)
    IN  IF data.t # "dict"
            THEN [db |-> d, resp |-> InternalServerError]   \* data.get: AttributeError
        ELSE LET name == DictGet(data.v, "name")
             IN  IF ~Truthy(name) \/ name.t # "str"
                     THEN [db |-> d,
                           resp |-> JsonResponse(400, [error |-> "Field 'name' is required"])]
                 ELSE LET autor == AuthorRow(NewRowId(d.authors), name.v)
                      IN  [db |-> [d EXCEPT !.authors = @ \cup {autor}],
                           resp |-> JsonResponse(201, ToDict(autor))]

\* POST /books
ej3b2_add_book(d, body) ==
    LET data == JsonOrEmpty(body)
    IN  IF data.t # "dict"
            THEN [db |-> d, resp |-> InternalServerError]   \* data.get: AttributeError
        ELSE LET title == DictGet(data.v, "title")
                 author_id == DictGet(data.v, "author_id")
                 year == DictGet(data.v, "year")
             IN  IF ~Truthy(title) \/ title.t # "str"
                     THEN [db |-> d,
                           resp |-> JsonResponse(400, [error |-> "Field 'title' is required"])]
                 ELSE IF author_id.t \notin {"int", "bool", "huge"}
                     THEN [db |-> d,
                           resp |-> JsonResponse(400,
                               [error |-> "Field 'author_id' is required and must be int"])]
                 ELSE IF Overflows(author_id)
                     \* get_or_404 binds author_id: OverflowError, uncaught
                     THEN [db |-> d, resp |-> InternalServerError]
                 ELSE IF SessionGet(d.authors, author_id) = {}
                     THEN [db |-> d, resp |-> NotFound]
                 ELSE IF year # PyNone /\ IntOf(year) # "ok"
                     THEN [db |-> d,
                           resp |-> JsonResponse(400,
                               [error |-> "Field 'year' must be an integer"])]
                 ELSE IF Overflows(year)
                     \* db.session.commit binds year: OverflowError, uncaught
                     THEN [db |-> d, resp |-> InternalServerError]
                 ELSE LET libro == BookRow(NewRowId(d.books), title.v,
                                     IF year = PyNone THEN PyNone ELSE PyInt(AsInteger(year)),
                                     AsInteger(author_id))
                      IN  [db |-> [d EXCEPT !.books = @ \cup {libro}],
                           resp |-> JsonResponse(201, ToDict(libro))]

\* DELETE /books/<int:book_id>
ej3b2_delete_book(d, book_id) ==
    LET found == SessionGet(d.books, PyInt(book_id))
    IN  IF found = {} THEN [db |-> d, resp |-> NotFound]
        ELSE [db |-> [d EXCEPT !.books = @ \ found], resp |-> NoContent]

\* PUT /books/<int:book_id>: nothing is committed when a field is refused
ej3b2_update_book(d, book_id, body) ==
    LET data == JsonOrEmpty(body)
        found == SessionGet(d.books, PyInt(book_id))
    IN  IF found = {} THEN [db |-> d, resp |-> NotFound]
        ELSE IF data.t # "dict"
            THEN [db |-> d, resp |-> InternalServerError]
        ELSE LET libro == CHOOSE b \in found : TRUE
                 title == DictGet(data.v, "title")
                 year == DictGet(data.v, "year")
             IN  IF "title" \in DOMAIN data.v /\ (title.t # "str" \/ title.v = "")
                     THEN [db |-> d,
                           resp |-> JsonResponse(400,
                               [error |-> "Field 'title' must be a non-empty string"])]
                 ELSE IF "year" \in DOMAIN data.v /\ year # PyNone /\ IntOf(year) # "ok"
                     THEN [db |-> d,
                           resp |-> JsonResponse(400,
                               [error |-> "Field 'year' must be an integer"])]
                 ELSE IF "year" \in DOMAIN data.v /\ Overflows(year)
                     THEN [db |-> d, resp |-> InternalServerError]
                 ELSE LET updated == [libro EXCEPT
                              !.title = IF "title" \in DOMAIN data.v THEN title.v ELSE @,
                              !.year = IF "year" \notin DOMAIN data.v THEN @
                                       ELSE IF year = PyNone THEN PyNone
                                       ELSE PyInt(AsInteger(year))]
                      IN  [db |-> [d EXCEPT !.books = (@ \ {libro}) \cup {updated}],
                           resp |-> JsonResponse(200, ToDict(updated))]

\* The bodies the clients send
LibraryAuthorBodies ==
    { PyNone, PyList, JObject([name |-> Str("")]), JObject([name |-> Str("Ana")]) }

LibraryBookBodies ==
    { PyNone, JObject([author_id |-> PyInt(1)]) }
    \cup { JObject([title |-> Str("T"), author_id |-> a]) :
             a \in AuthorRefs \cup {Str("1"), PyBool(TRUE)} }
    \cup { JObject([title |-> Str("T"), author_id |-> PyInt(1), year |-> y]) :
             y \in {PyInt(1967), Str("x")} }

LibraryUpdateBodies ==
    { PyNone, JObject([title |-> Str("U")]), JObject([title |-> Str("")]),
      JObject([year |-> PyNone]), JObject([title |-> Str("U"), year |-> Str("x")]) }

LibraryAddAuthor ==
    \E body \in LibraryAuthorBodies :
        LET r == ej3b2_add_author(db, body)
        IN  /\ Cardinality(r.db.authors) <= MaxRows
            /\ db' = r.db
            /\ call' = [name |-> "ej3b2_add_author", body |-> body, resp |-> r.resp,
                        before |-> db]
            /\ UNCHANGED webvars

LibraryAddBook ==
    \E body \in LibraryBookBodies :
        LET r == ej3b2_add_book(db, body)
        IN  /\ Cardinality(r.db.books) <= MaxRows
            /\ db' = r.db
            /\ call' = [name |-> "ej3b2_add_book", body |-> body, resp |-> r.resp,
                        before |-> db]
            /\ UNCHANGED webvars

LibraryUpdateBook ==
    \E book_id \in 1..(MaxRows + 1), body \in LibraryUpdateBodies :
        LET r == ej3b2_update_book(db, book_id, body)
        IN  /\ db' = r.db
            /\ call' = [name |-> "ej3b2_update_book", body |-> body, resp |-> r.resp,
                        before |-> db]
            /\ UNCHANGED webvars

LibraryDeleteBook ==
    \E book_id \in 1..(MaxRows + 1) :
        LET r == ej3b2_delete_book(db, book_id)
        IN  /\ db' = r.db
            /\ call' = [name |-> "ej3b2_delete_book", body |-> PyNone, resp |-> r.resp,
                        before |-> db]
            /\ UNCHANGED webvars

NextLibrary ==
    LibraryAddAuthor \/ LibraryAddBook \/ LibraryUpdateBook \/ LibraryDeleteBook

SpecLibrary == InitWith(EmptyTables) /\ [][NextLibrary]_vars

\* The posted body has a title and an integer author_id that is the id of no
\* stored author
UnknownAuthorPosted ==
    /\ call.name = "ej3b2_add_book"
    /\ call.body.t = "dict"
    /\ "title" \in DOMAIN call.body.v /\ "author_id" \in DOMAIN call.body.v
    /\ call.body.v.title.t = "str" /\ call.body.v.title.v # ""
    /\ call.body.v.author_id.t \in {"int", "huge"}
    /\ \/ call.body.v.author_id.t = "huge"
       \/ \A a \in call.before.authors : a.id # call.body.v.author_id.v

\* C30: after any sequence of POST /authors, POST /books, PUT /books/<id> and
\* DELETE /books/<id>, every stored book's author_id is the id of a stored
\* author; a POST /books whose author_id is the id of no author answers 404
\* and leaves the books as they were.
C30_ReferentialIntegrity ==
    /\ \A b \in db.books : \E a \in db.authors : a.id = b.author_id
    /\ UnknownAuthorPosted =>
         call.resp.status = 404 /\ db.books = call.before.books

====
